---------------------------- MODULE Spec2Model ----------------------------
(***************************************************************************)
(* The two position evaluators of src/projects/proj2/evaluation.py:        *)
(* soccer(state, player_id) and connect_four(state, player_id).            *)
(*                                                                         *)
(* Both are functions of a game state owned by the game library.  A caller *)
(* (the search) holds one state and calls the evaluators on it; the model  *)
(* records what each call returned or raised.                              *)
(*                                                                         *)
(* soccer computes in Python floats (IEEE-754 binary64).  The model keeps  *)
(* that arithmetic bit for bit: a float is a sign and a magnitude counted  *)
(* in units of 2^-52, the magnitude is a multi-limb natural number, and    *)
(* every operation rounds its exact result to 53 significant bits, ties to *)
(* even.  connect_four computes in Python ints, modelled by integers.      *)
(***************************************************************************)
EXTENDS Integers, Sequences, FiniteSets

(***************************************************************************)
(* Multi-limb natural numbers (little-endian, NumLimbs limbs of LimbBits   *)
(* bits).  They carry the 53-bit significands and the exact intermediate   *)
(* results of the float operations, which do not fit a 32-bit integer.     *)
(***************************************************************************)
LimbBits == 12

Base == 2^LimbBits

NumLimbs == 12

Limbs == 1..NumLimbs

\* 2^n for a small n.
Pow2(n) == 2^n

\* The limbs of f, a function on Limbs, as a tuple.
RECURSIVE Seal(_, _)
Seal(f, i) == IF i > NumLimbs THEN <<>> ELSE <<f[i]>> \o Seal(f, i + 1)

\* Carry propagation: x maps each limb to any integer (negative on a borrow).
RECURSIVE NormFrom(_, _, _)
NormFrom(x, i, carry) ==
    IF i > NumLimbs THEN <<>>
    ELSE LET v == x[i] + carry
         IN  <<v % Base>> \o NormFrom(x, i + 1, v \div Base)

Norm(x) == NormFrom(x, 1, 0)

\* The natural number n < 2^31 as limbs.
BigOfNat(n) ==
    Seal([i \in Limbs |-> IF i = 1 THEN n % Base
                          ELSE IF i = 2 THEN (n \div Base) % Base
                          ELSE IF i = 3 THEN (n \div (Base * Base)) % Base
                          ELSE 0], 1)

BigZero == BigOfNat(0)

BigAdd(a, b) == Norm([i \in Limbs |-> a[i] + b[i]])

\* a - b for a >= b.
BigSub(a, b) == Norm([i \in Limbs |-> a[i] - b[i]])

\* Column k of the schoolbook product: the sum of a[i] * b[k + 1 - i] for i <= k.
RECURSIVE ColSum(_, _, _, _)
ColSum(a, b, k, i) ==
    IF i = 0 THEN 0 ELSE a[i] * b[k + 1 - i] + ColSum(a, b, k, i - 1)

\* Schoolbook product; the product fits NumLimbs limbs.
BigMul(a, b) == Norm([k \in Limbs |-> ColSum(a, b, k, k)])

\* Index of the most significant non-zero limb, 0 for zero.
RECURSIVE TopLimb(_, _)
TopLimb(a, i) == IF i = 0 THEN 0 ELSE IF a[i] # 0 THEN i ELSE TopLimb(a, i - 1)

\* Number of significant bits of a limb value.
RECURSIVE NatBits(_)
NatBits(n) == IF n = 0 THEN 0 ELSE 1 + NatBits(n \div 2)

\* Number of significant bits of a.
BitLen(a) ==
    LET t == TopLimb(a, NumLimbs)
    IN  IF t = 0 THEN 0 ELSE LimbBits * (t - 1) + NatBits(a[t])

\* Three-way comparison from the top limb down: -1, 0, 1.
RECURSIVE BigCmpFrom(_, _, _)
BigCmpFrom(a, b, i) ==
    IF i = 0 THEN 0
    ELSE IF a[i] < b[i] THEN -1
    ELSE IF a[i] > b[i] THEN 1
    ELSE BigCmpFrom(a, b, i - 1)

BigCmp(a, b) == BigCmpFrom(a, b, NumLimbs)

BigLess(a, b) == BigCmp(a, b) = -1

BigLeq(a, b) == BigCmp(a, b) # 1

\* floor(a / 2^s).
BigShr(a, s) ==
    LET q == s \div LimbBits
        r == s % LimbBits
        at(i) == IF i <= NumLimbs THEN a[i] ELSE 0
    IN  Seal([i \in Limbs |->
                (at(i + q) \div Pow2(r))
                + (at(i + q + 1) % Pow2(r)) * Pow2(LimbBits - r)], 1)

\* a * 2^s, the result fitting NumLimbs limbs.
BigShl(a, s) ==
    LET q == s \div LimbBits
        r == s % LimbBits
        at(i) == IF i >= 1 THEN a[i] ELSE 0
    IN  Seal([i \in Limbs |->
                (at(i - q) % Pow2(LimbBits - r)) * Pow2(r)
                + (at(i - q - 1) \div Pow2(LimbBits - r))], 1)

BigIsOdd(a) == a[1] % 2 = 1

BigOne == BigOfNat(1)

(***************************************************************************)
(* IEEE-754 binary64.  A float is [neg, mag]: the value (-1)^neg * mag *   *)
(* 2^-52, where mag has at most MantissaBits significant bits.  Every      *)
(* float of magnitude 0 or in [1, 2^91) has this form; the evaluator's     *)
(* values on the pitches modelled here are all of that kind.               *)
(***************************************************************************)
MantissaBits == 53

FracBits == MantissaBits - 1

\* Round a magnitude to MantissaBits significant bits, ties to even.
RoundSig(a) ==
    LET n == BitLen(a)
    IN  IF n <= MantissaBits THEN a
        ELSE LET s    == n - MantissaBits
                 q    == BigShr(a, s)
                 rest == BigSub(a, BigShl(q, s))
                 half == BigShl(BigOne, s - 1)
                 c    == BigCmp(rest, half)
                 up   == c = 1 \/ (c = 0 /\ BigIsOdd(q))
             IN  BigShl(IF up THEN BigAdd(q, BigOne) ELSE q, s)

\* float(n) of an int n, |n| < 2^31: exact.
FloatOfInt(n) ==
    [neg |-> n < 0, mag |-> BigShl(BigOfNat(IF n < 0 THEN -n ELSE n), FracBits)]

FloatNeg(x) == [neg |-> ~x.neg, mag |-> x.mag]

\* The exact sum of two floats, a signed magnitude in units of 2^-52.
ExactAdd(x, y) ==
    IF x.neg = y.neg THEN [neg |-> x.neg, mag |-> BigAdd(x.mag, y.mag)]
    ELSE IF BigLeq(y.mag, x.mag) THEN [neg |-> x.neg, mag |-> BigSub(x.mag, y.mag)]
    ELSE [neg |-> y.neg, mag |-> BigSub(y.mag, x.mag)]

\* x + y, rounded.
FloatAdd(x, y) ==
    LET e == ExactAdd(x, y) IN [neg |-> e.neg, mag |-> RoundSig(e.mag)]

\* x - y, rounded.
FloatSub(x, y) == FloatAdd(x, FloatNeg(y))

\* x * y, rounded; the product is 0 or of magnitude at least 1.
FloatMul(x, y) ==
    [neg |-> x.neg # y.neg,
     mag |-> BigShr(RoundSig(BigMul(x.mag, y.mag)), FracBits)]

\* x < y.
FloatLess(x, y) ==
    IF x.neg /\ ~y.neg THEN BigCmp(x.mag, BigZero) # 0 \/ BigCmp(y.mag, BigZero) # 0
    ELSE IF ~x.neg /\ y.neg THEN FALSE
    ELSE IF x.neg THEN BigLess(y.mag, x.mag)
    ELSE BigLess(x.mag, y.mag)

\* floor(sqrt(n)) of a small natural number.
NatSqrt(n) == CHOOSE r \in 0..n : r * r <= n /\ n < (r + 1) * (r + 1)

\* The square root digit by digit: from root = floor(sqrt(N)) and rem = N - root^2
\* to the same for 4^k * N, one bit of the root per step.
RECURSIVE SqrtDigits(_, _, _)
SqrtDigits(root, rem, k) ==
    IF k = 0 THEN [root |-> root, rem |-> rem]
    ELSE LET r4    == BigShl(rem, 2)
             trial == BigAdd(BigShl(root, 2), BigOne)
         IN  IF BigLeq(trial, r4)
             THEN SqrtDigits(BigAdd(BigShl(root, 1), BigOne), BigSub(r4, trial), k - 1)
             ELSE SqrtDigits(BigShl(root, 1), r4, k - 1)

\* math.sqrt(n) of an int n >= 0: the correctly rounded square root.  The root is
\* taken to one bit below the unit and a sticky bit records a non-zero remainder.
FloatSqrt(n) ==
    LET r0 == NatSqrt(n)
        d  == SqrtDigits(BigOfNat(r0), BigOfNat(n - r0 * r0), MantissaBits)
        sticky == IF BigCmp(d.rem, BigZero) = 0 THEN BigZero ELSE BigOne
        wide == BigAdd(BigShl(d.root, 1), sticky)
    IN  [neg |-> FALSE, mag |-> BigShr(RoundSig(wide), 2)]

(***************************************************************************)
(* The game states, as the evaluators read them.  The game library owns    *)
(* them; the evaluators use its accessors only.                            *)
(***************************************************************************)
\* Bounds of the pitches and boards the caller draws its states from.
MaxX == 5

MaxY == 5

NumLines == 2

MaxPieces == 4

PlayerIds == {0, 1}

\* get_possession() when nobody has the ball.
NoPossession == -1

\* A cell of a line that holds no piece.
Empty == -1

\* The cells of a line.
LineLength == 4

Cells == (0..MaxX) \X (0..MaxY)

\* The goals stand in the corners of the pitch.
GoalCells == {<<0, 0>>, <<MaxX, 0>>, <<0, MaxY>>, <<MaxX, MaxY>>}

SoccerStates ==
    [kind : {"SoccerState"}, ball : Cells, goals : GoalCells \X GoalCells,
     possession : PlayerIds \cup {NoPossession}]

AllLines == [1..LineLength -> PlayerIds \cup {Empty}]

\* The cells of line that hold value v.
CellsEqual(line, v) == {j \in 1..LineLength : line[j] = v}

PiecesIn(lines) ==
    Cardinality({ij \in (1..NumLines) \X (1..LineLength) : lines[ij[1]][ij[2]] # Empty})

Connect4States ==
    [kind : {"Connect4State"},
     lines : {ls \in [1..NumLines -> AllLines] : PiecesIn(ls) <= MaxPieces}]

GameStates == SoccerStates \cup Connect4States

\* isinstance(state, discrete_soccer.SoccerState)
IsSoccerState(s) == s.kind = "SoccerState"

\* isinstance(state, connect_four.Connect4State)
IsConnect4State(s) == s.kind = "Connect4State"

\* state.get_goal_position(pid): players are numbered 0 and 1.
get_goal_position(s, pid) == s.goals[pid + 1]

get_ball_position(s) == s.ball

get_possession(s) == s.possession

get_lines(s) == s.lines

(***************************************************************************)
(* What a call does: return a score or raise.                              *)
(***************************************************************************)
Return(v) == [raised |-> FALSE, error |-> "", score |-> v]

Raise(e) == [raised |-> TRUE, error |-> e, score |-> 0]

\* raise ValueError("Evaluation function incompatible with game type.")
Incompatible == Raise("ValueError: Evaluation function incompatible with game type.")

(***************************************************************************)
(* soccer(state, player_id)                                                *)
(***************************************************************************)
goal_reward == 1000

possession_bonus == 50

distance_penalty == 5

\* SquaredDistance with the squares subtracted, not added.
SquaredDistanceSubtracted(ball, goal) ==
    (ball[1] - goal[1]) * (ball[1] - goal[1]) - (ball[2] - goal[2]) * (ball[2] - goal[2])

\* (ball[0] - goal[0])**2 + (ball[1] - goal[1])**2, an int.
SquaredDistance(ball, goal) ==
    (ball[1] - goal[1]) * (ball[1] - goal[1]) + (ball[2] - goal[2]) * (ball[2] - goal[2])

\* The largest squared distance on the pitch.
MaxDistSq == MaxX * MaxX + MaxY * MaxY

\* math.sqrt on every squared distance of the pitch, computed once.
SqrtTable == [n \in 0..MaxDistSq |-> FloatSqrt(n)]

\* math.sqrt(n): a negative argument raises ValueError.
math_sqrt(n) == IF n < 0 THEN Raise("ValueError: math domain error") ELSE Return(SqrtTable[n])

\* score_of without the distance penalty factor.
score_of_unweighted(has_possession, distance_to_goal) ==
    LET score == IF has_possession THEN possession_bonus ELSE -possession_bonus
    IN  FloatAdd(FloatOfInt(score), FloatSub(FloatOfInt(goal_reward), distance_to_goal))

\* score_of that takes nothing off without possession.
score_of_bonus_only(has_possession, distance_to_goal) ==
    LET score == IF has_possession THEN possession_bonus ELSE 0
    IN  FloatAdd(FloatOfInt(score),
                 FloatSub(FloatOfInt(goal_reward),
                          FloatMul(FloatOfInt(distance_penalty), distance_to_goal)))

\* score_of that adds the distance term.
score_of_far_is_good(has_possession, distance_to_goal) ==
    LET score == IF has_possession THEN possession_bonus ELSE -possession_bonus
    IN  FloatAdd(FloatOfInt(score),
                 FloatAdd(FloatOfInt(goal_reward),
                          FloatMul(FloatOfInt(distance_penalty), distance_to_goal)))

\* The score from possession and the distance to the opponent's goal:
\*   score = possession_bonus if has_possession else -possession_bonus
\*   score += goal_reward - distance_penalty * distance_to_goal
score_of(has_possession, distance_to_goal) ==
    LET score == IF has_possession THEN possession_bonus ELSE -possession_bonus
    IN  FloatAdd(FloatOfInt(score),
                 FloatSub(FloatOfInt(goal_reward),
                          FloatMul(FloatOfInt(distance_penalty), distance_to_goal)))

\* score_of on every possession and squared distance of the pitch, computed once.
ScoreTable == [h \in BOOLEAN, n \in 0..MaxDistSq |-> score_of(h, SqrtTable[n])]

\* soccer measuring the distance to the player's own goal.
soccer_to_own_goal(s, player_id) ==
    IF ~IsSoccerState(s) THEN Incompatible
    ELSE LET player_goal   == get_goal_position(s, player_id)
             ball_position == get_ball_position(s)
             has_possession == get_possession(s) = player_id
             dist_sq == SquaredDistance(ball_position, player_goal)
             distance_to_goal == math_sqrt(dist_sq)
         IN  IF distance_to_goal.raised THEN distance_to_goal
             ELSE Return(ScoreTable[has_possession, dist_sq])

soccer(s, player_id) ==
    IF ~IsSoccerState(s) THEN Incompatible
    ELSE LET player_goal   == get_goal_position(s, player_id)
             opponent_goal == get_goal_position(s, 1 - player_id)
             ball_position == get_ball_position(s)
             has_possession == get_possession(s) = player_id
             dist_sq == SquaredDistance(ball_position, opponent_goal)
             distance_to_goal == math_sqrt(dist_sq)
         IN  IF distance_to_goal.raised THEN distance_to_goal
             ELSE Return(ScoreTable[has_possession, dist_sq])

(***************************************************************************)
(* connect_four(state, player_id)                                          *)
(***************************************************************************)
\* score_alignment with the open and the blocked three exchanged.
score_alignment_tiers_swapped(count, opponent_count) ==
    IF count = 4 THEN 1000
    ELSE IF count = 3 /\ opponent_count = 0 THEN 5
    ELSE IF count = 2 /\ opponent_count = 0 THEN 10
    ELSE IF count = 3 /\ opponent_count = 1 THEN 50
    ELSE IF count = 2 /\ opponent_count = 1 THEN 1
    ELSE 0

score_alignment(count, opponent_count) ==
    IF count = 4 THEN 1000
    ELSE IF count = 3 /\ opponent_count = 0 THEN 50
    ELSE IF count = 2 /\ opponent_count = 0 THEN 10
    ELSE IF count = 3 /\ opponent_count = 1 THEN 5
    ELSE IF count = 2 /\ opponent_count = 1 THEN 1
    ELSE 0

\* line_score that also scores the lines both players are on.
line_score_mixed_too(line, player_id) ==
    LET opponent_id    == 1 - player_id
        player_count   == Cardinality(CellsEqual(line, player_id))
        opponent_count == Cardinality(CellsEqual(line, opponent_id))
    IN  IF player_count > 0
        THEN score_alignment(player_count, opponent_count)
        ELSE IF opponent_count > 0
        THEN -score_alignment(opponent_count, player_count)
        ELSE 0

\* line_score that leaves the opponent's lines out.
line_score_own_only(line, player_id) ==
    LET opponent_id    == 1 - player_id
        player_count   == Cardinality(CellsEqual(line, player_id))
        opponent_count == Cardinality(CellsEqual(line, opponent_id))
    IN  IF player_count > 0 /\ opponent_count = 0
        THEN score_alignment(player_count, opponent_count)
        ELSE 0

\* What one line adds to the score.
line_score(line, player_id) ==
    LET opponent_id    == 1 - player_id
        player_count   == Cardinality(CellsEqual(line, player_id))
        opponent_count == Cardinality(CellsEqual(line, opponent_id))
    IN  IF player_count > 0 /\ opponent_count = 0
        THEN score_alignment(player_count, opponent_count)
        ELSE IF opponent_count > 0 /\ player_count = 0
        THEN -score_alignment(opponent_count, player_count)
        ELSE 0

\* The loop over state.get_lines(), from line i on, with the score so far.
RECURSIVE scan_lines(_, _, _, _)
scan_lines(lines, i, player_id, score) ==
    IF i > Len(lines) THEN score
    ELSE scan_lines(lines, i + 1, player_id, score + line_score(lines[i], player_id))

\* connect_four raising another kind of error on a state of the other game.
connect_four_type_error(s, player_id) ==
    IF ~IsConnect4State(s) THEN Raise("TypeError: Evaluation function incompatible with game type.")
    ELSE Return(scan_lines(get_lines(s), 1, player_id, 0))

connect_four(s, player_id) ==
    IF ~IsConnect4State(s) THEN Incompatible
    ELSE Return(scan_lines(get_lines(s), 1, player_id, 0))

(***************************************************************************)
(* The caller: it holds one game state and calls the evaluators on it.     *)
(*   state     the game state the caller holds                             *)
(*   given     the game state as the game library handed it over           *)
(*   outcome   the last call and what it did                               *)
(*   repeated  the last call repeated the call before it                   *)
(*   first     the outcome of the first call of the current run of equal   *)
(*             calls                                                       *)
(***************************************************************************)
VARIABLES state, given, outcome, repeated, first

vars == <<state, given, outcome, repeated, first>>

NoCall == [evaluator |-> "none", player_id |-> 0, result |-> Raise("")]

Call(evaluator, player_id, result) ==
    [evaluator |-> evaluator, player_id |-> player_id, result |-> result]

Init ==
    /\ state \in GameStates
    /\ given = state
    /\ outcome = NoCall
    /\ repeated = FALSE
    /\ first = NoCall

\* soccer handing the ball to the player it evaluates for.
StateAfterSoccerTakingBall(s, player_id) ==
    IF IsSoccerState(s) THEN [s EXCEPT !.possession = player_id] ELSE s

\* The state a call leaves behind: neither evaluator assigns to the state or
\* calls anything but its read accessors.
StateAfterSoccer(s, player_id) == s

StateAfterConnectFour(s, player_id) == s

CallSoccer(player_id) ==
    /\ outcome' = Call("soccer", player_id, soccer(state, player_id))
    /\ repeated' = (outcome.evaluator = "soccer" /\ outcome.player_id = player_id)
    /\ first' = IF repeated' THEN first ELSE outcome'
    /\ state' = StateAfterSoccer(state, player_id)
    /\ UNCHANGED given

CallConnectFour(player_id) ==
    /\ outcome' = Call("connect_four", player_id, connect_four(state, player_id))
    /\ repeated' = (outcome.evaluator = "connect_four" /\ outcome.player_id = player_id)
    /\ first' = IF repeated' THEN first ELSE outcome'
    /\ state' = StateAfterConnectFour(state, player_id)
    /\ UNCHANGED given

Next ==
    \E player_id \in PlayerIds :
        \/ CallSoccer(player_id)
        \/ CallConnectFour(player_id)

Spec == Init /\ [][Next]_vars

(***************************************************************************)
(* The claims.                                                             *)
(***************************************************************************)
\* The last call was soccer on a soccer state and returned a score.
SoccerReturned ==
    /\ IsSoccerState(state)
    /\ outcome.evaluator = "soccer"
    /\ ~outcome.result.raised

\* The last call was connect_four on a connect-four state and returned a score.
ConnectFourReturned ==
    /\ IsConnect4State(state)
    /\ outcome.evaluator = "connect_four"
    /\ ~outcome.result.raised

\* ---- C1 ----
\* lineScore of the specification's table.
lineScore(count, opponentCount) ==
    CASE count = 4 -> 1000
      [] count = 3 /\ opponentCount = 0 -> 50
      [] count = 2 /\ opponentCount = 0 -> 10
      [] count = 3 /\ opponentCount = 1 -> 5
      [] count = 2 /\ opponentCount = 1 -> 1
      [] OTHER -> 0

Count(line, v) == Cardinality({j \in DOMAIN line : line[j] = v})

\* What the claim gives a line: lineScore(player_count, 0) when only the player is
\* on it, minus lineScore(opponent_count, 0) when only the opponent is, else 0.
LineTotal(line, p) ==
    IF Count(line, p) > 0 /\ Count(line, 1 - p) = 0 THEN lineScore(Count(line, p), 0)
    ELSE IF Count(line, 1 - p) > 0 /\ Count(line, p) = 0
    THEN 0 - lineScore(Count(line, 1 - p), 0)
    ELSE 0

RECURSIVE SumOver(_, _, _)
SumOver(lines, idx, p) ==
    IF idx = {} THEN 0
    ELSE LET i == CHOOSE k \in idx : TRUE
         IN  LineTotal(lines[i], p) + SumOver(lines, idx \ {i}, p)

EmptyLine == [j \in 1..LineLength |-> Empty]

\* line is the only line of lines that holds a piece.
OnlyNonEmptyLine(lines, line) ==
    \E i \in DOMAIN lines :
        /\ lines[i] = line
        /\ \A k \in DOMAIN lines \ {i} : lines[k] = EmptyLine

ThreeAndEmpty(p) == [j \in 1..LineLength |-> IF j < LineLength THEN p ELSE Empty]

FourOf(p) == [j \in 1..LineLength |-> p]

\* C1: connect_four returns the sum over all lines of the line totals; a state whose
\* only non-empty line is [p, p, p, empty] scores 50 for p, and one whose only
\* non-empty line is four of the opponent scores -1000.
C1_LineSum ==
    ConnectFourReturned =>
        LET p == outcome.player_id
            lines == state.lines
            score == outcome.result.score
        IN  /\ score = SumOver(lines, DOMAIN lines, p)
            /\ OnlyNonEmptyLine(lines, ThreeAndEmpty(p)) => score = 50
            /\ OnlyNonEmptyLine(lines, FourOf(1 - p)) => score = -1000

C1_Witness ==
    /\ ConnectFourReturned
    /\ outcome.player_id = 1
    /\ state.lines = <<EmptyLine, ThreeAndEmpty(1)>>
    /\ outcome.result.score = 50

\* ---- C3 ----
\* The one error kind of the evaluators.
VariantMismatch == "ValueError: Evaluation function incompatible with game type."

\* The last call was made on a state of the other game.
Mismatched ==
    \/ outcome.evaluator = "soccer" /\ IsConnect4State(state)
    \/ outcome.evaluator = "connect_four" /\ IsSoccerState(state)

\* C3: either evaluator, called with a state of the other game, raises the
\* variant-mismatch error, the same error for both, whatever the player.
C3_MismatchRaises ==
    Mismatched => outcome.result.raised /\ outcome.result.error = VariantMismatch

C3_Witness ==
    /\ outcome.evaluator = "connect_four"
    /\ IsSoccerState(state)
    /\ outcome.result.raised
    /\ first.evaluator = "connect_four"

\* ---- C4 ----
\* The last call was made on a state of the evaluator's own game.
Matched ==
    \/ outcome.evaluator = "soccer" /\ IsSoccerState(state)
    \/ outcome.evaluator = "connect_four" /\ IsConnect4State(state)

\* C4: on a state of its own game, for player 0 or 1, an evaluator returns a
\* score and raises nothing.
C4_NoOtherFailure ==
    Matched => ~outcome.result.raised

C4_Witness ==
    /\ outcome.evaluator = "soccer"
    /\ IsSoccerState(state)
    /\ state.ball = state.goals[1]
    /\ outcome.player_id = 1
    /\ ~outcome.result.raised

\* ---- The soccer claims: exact arithmetic on the returned floats ----
\* The integer n as a magnitude in units of 2^-52.
Units(n) == BigShl(BigOfNat(n), FracBits)

\* |a - b| of two magnitudes.
BigDist(a, b) == IF BigLeq(b, a) THEN BigSub(a, b) ELSE BigSub(b, a)

\* x - y without rounding.
ExactDiff(x, y) == ExactAdd(x, FloatNeg(y))

\* One unit in the last place of a float of magnitude at least 1.
Ulp(x) == BigShl(BigOne, BitLen(x.mag) - MantissaBits)

IsSquare(n) == NatSqrt(n) * NatSqrt(n) = n

\* The squared distance from the ball to the goal of the opponent of p.
DistSqToOpponentGoal(s, p) == SquaredDistance(s.ball, s.goals[(1 - p) + 1])

\* base of the claim: +50 with possession, -50 without (also when nobody has it).
BaseOf(s, p) == IF s.possession = p THEN 50 ELSE -50

\* The float x is within tol (in units of 2^-52) of the real number a - 5 * sqrt(n),
\* for a positive integer a: with d = a - x, (d - tol)^2 <= 25 n <= (d + tol)^2.
WithinOfReal(x, a, n, tol) ==
    LET d == ExactDiff([neg |-> FALSE, mag |-> Units(a)], x)
        t == BigShl(BigOfNat(25 * n), 2 * FracBits)
        hi == BigAdd(d.mag, tol)
    IN  /\ ~d.neg \/ BigCmp(d.mag, BigZero) = 0
        /\ BigLeq(t, BigMul(hi, hi))
        /\ \/ BigLess(d.mag, tol)
           \/ LET lo == BigSub(d.mag, tol) IN BigLeq(BigMul(lo, lo), t)

\* The float x is the real number a - 5 * sqrt(n) itself.
IsReal(x, a, n) ==
    LET d == ExactDiff([neg |-> FALSE, mag |-> Units(a)], x)
    IN  /\ ~d.neg \/ BigCmp(d.mag, BigZero) = 0
        /\ BigMul(d.mag, d.mag) = BigShl(BigOfNat(25 * n), 2 * FracBits)

\* base + 1000 - 5 * distance in floats, taken from the left as it is written.
LeftToRight(base, n) ==
    FloatSub(FloatAdd(FloatOfInt(base), FloatOfInt(1000)),
             FloatMul(FloatOfInt(5), SqrtTable[n]))

\* 2^-41 in units of 2^-52.
Tolerance == BigShl(BigOne, 11)

\* ---- C2 ----
\* C2 as stated: soccer returns base + 1000 - 5 * distance: the real number, or
\* the float that this expression gives.
C2_AsStated ==
    SoccerReturned =>
        LET p == outcome.player_id
            n == DistSqToOpponentGoal(state, p)
            score == outcome.result.score
        IN  \/ IsReal(score, BaseOf(state, p) + 1000, n)
            \/ score = LeftToRight(BaseOf(state, p), n)

\* C2, amended: soccer returns base + 1000 - 5 * distance up to the rounding of
\* its float arithmetic: the returned float is within 2^-41 of that real number,
\* and is that number when the distance is an integer; with the ball at (5,5),
\* the opponent's goal at (5,0) and possession it is 1025.
C2_UpToRounding ==
    SoccerReturned =>
        LET p == outcome.player_id
            n == DistSqToOpponentGoal(state, p)
            a == BaseOf(state, p) + 1000
            score == outcome.result.score
        IN  /\ WithinOfReal(score, a, n, Tolerance)
            /\ IsSquare(n) => score = FloatOfInt(a - 5 * NatSqrt(n))
            /\ (state.ball = <<5, 5>> /\ state.goals[(1 - p) + 1] = <<5, 0>>
                /\ state.possession = p) => score = FloatOfInt(1025)

C2_Witness ==
    /\ SoccerReturned
    /\ outcome.player_id = 0
    /\ state.ball = <<5, 5>>
    /\ state.goals[2] = <<5, 0>>
    /\ state.possession = 0
    /\ outcome.result.score = FloatOfInt(1025)

\* ---- C5 ----
\* The same state with the ball held by q.
WithPossession(s, q) == [s EXCEPT !.possession = q]

\* C5 as stated: with the same ball and goals, the score for p when p holds the
\* ball exceeds the score for p when 1 - p holds it by exactly 100.
C5_AsStated ==
    (SoccerReturned /\ state.possession = outcome.player_id) =>
        LET p == outcome.player_id
            other == soccer(WithPossession(state, 1 - p), p).score
            d == ExactDiff(outcome.result.score, other)
        IN  ~d.neg /\ d.mag = Units(100)

\* C5, amended: the score with possession exceeds the score without by 100 up to
\* rounding: the two floats differ by 100 to within one unit in the last place of
\* the larger, and by exactly 100 when the distance is an integer.
C5_UpToRounding ==
    (SoccerReturned /\ state.possession = outcome.player_id) =>
        LET p == outcome.player_id
            with == outcome.result.score
            other == soccer(WithPossession(state, 1 - p), p).score
            d == ExactDiff(with, other)
        IN  /\ FloatLess(other, with)
            /\ ~d.neg
            /\ BigLeq(BigDist(d.mag, Units(100)), Ulp(with))
            /\ IsSquare(DistSqToOpponentGoal(state, p)) => d.mag = Units(100)

\* A state where the difference is not 100: the ball at (1,2), the goal at (0,0).
C5_Witness ==
    /\ SoccerReturned
    /\ state.possession = outcome.player_id
    /\ DistSqToOpponentGoal(state, outcome.player_id) = 5
    /\ ExactDiff(outcome.result.score,
                 soccer(WithPossession(state, 1 - outcome.player_id),
                        outcome.player_id).score).mag # Units(100)

\* ---- C6 ----
WithBall(s, b) == [s EXCEPT !.ball = b]

\* C6: with goals and possession the same, a ball strictly closer to the
\* opponent's goal gives a strictly greater score.
C6_CloserIsBetter ==
    SoccerReturned =>
        LET p == outcome.player_id
        IN  \A b \in Cells :
                DistSqToOpponentGoal(WithBall(state, b), p) < DistSqToOpponentGoal(state, p)
                => FloatLess(outcome.result.score, soccer(WithBall(state, b), p).score)

C6_Witness ==
    /\ SoccerReturned
    /\ DistSqToOpponentGoal(state, outcome.player_id) = MaxDistSq
    /\ \E b \in Cells :
          /\ DistSqToOpponentGoal(WithBall(state, b), outcome.player_id) < MaxDistSq
          /\ FloatLess(outcome.result.score,
                       soccer(WithBall(state, b), outcome.player_id).score)

\* ---- C9 ----
WithGoal(s, q, g) == [s EXCEPT !.goals[q + 1] = g]

\* C9: the score for p does not depend on where the goal of p stands.
C9_OwnGoalUnused ==
    SoccerReturned =>
        \A g \in GoalCells :
            soccer(WithGoal(state, outcome.player_id, g), outcome.player_id)
                = outcome.result

C9_Witness ==
    /\ SoccerReturned
    /\ outcome.player_id = 0
    /\ state.goals[1] # state.goals[2]
    /\ state.ball = state.goals[1]
    /\ \E g \in GoalCells \ {state.goals[1]} :
          soccer(WithGoal(state, 0, g), 0) = outcome.result

\* ---- C7 ----
\* A line that holds a piece of each player.
Mixed(line) == Count(line, 0) > 0 /\ Count(line, 1) > 0

MixedLines == {line \in AllLines : Mixed(line)}

WithLine(s, i, line) == [s EXCEPT !.lines[i] = line]

\* C7: a mixed line adds nothing: the score is that of the state with the line
\* emptied, and that of the state with any other mixed line in its place, whatever
\* the order and the number of the pieces on it.
C7_MixedLineNeutral ==
    ConnectFourReturned =>
        \A i \in DOMAIN state.lines :
            Mixed(state.lines[i]) =>
                /\ connect_four(WithLine(state, i, EmptyLine), outcome.player_id)
                       = outcome.result
                /\ \A line \in MixedLines :
                       connect_four(WithLine(state, i, line), outcome.player_id)
                           = outcome.result

\* One piece of each player on one line, two of the player alone on the other: the
\* score is that of the second line.
C7_Witness ==
    /\ ConnectFourReturned
    /\ outcome.player_id = 0
    /\ state.lines[1] = <<0, 1, Empty, Empty>>
    /\ state.lines[2] = <<Empty, 0, 0, Empty>>
    /\ outcome.result.score = 10

C10_ZeroSum ==
    ConnectFourReturned =>
        outcome.result.score
            + connect_four(state, 1 - outcome.player_id).score = 0

C10_Witness ==
    /\ ConnectFourReturned
    /\ outcome.player_id = 0
    /\ outcome.result.score = 50
    /\ connect_four(state, 1).score = -50
=============================================================================
